---- MODULE Spec2Model ----
(***************************************************************************)
(* Model of the Kindle Sender server (src/server/app.py).                  *)
(*                                                                         *)
(* The server keeps one process-wide list, article_queue, and serves its   *)
(* handlers on the threads of Flask's development server (app.run, line    *)
(* 324).  A handler that touches article_queue is split into the steps     *)
(* between which another thread can run; the steps of a handler that work  *)
(* only on the request's own data (extraction, packaging and dispatch of   *)
(* one URL) are taken together.  What the network, the e-book library and  *)
(* the mail relay answer is an input of the step that asks them.           *)
(***************************************************************************)
EXTENDS Integers, Sequences, FiniteSets, TLC

\* ------------------------------------------------------------------ bounds
NumThreads == 2     \* request threads of the server
MaxQueue == 2       \* longest pending list explored
MaxClock == 1       \* datetime.now() takes the values 0..MaxClock
MaxFiles == 1       \* temporary paths available to tempfile.mkdtemp

Threads == 1..NumThreads
Paths == 1..MaxFiles

\* ------------------------------------------------------------- environment
NoneVal == "None"

\* URLs a client may send.  "bad" is an invalid URL: extraction never succeeds.
Urls == {"a", "b", "bad"}

\* The page behind a URL: article.title as newspaper parses it ("b" has none).
PageTitle(u) == IF u = "a" THEN "A" ELSE ""

\* What Article(url).download()/parse() can do: "ok", or raise an exception
\* whose text str(e) is the value.
ExtractOutcomes(u) ==
  IF u = "bad" THEN {"bad url"} ELSE {"ok", "download failed"}

\* What tempfile.mkdtemp / epub.write_epub can do, given the files on disk:
\* with no temporary path left the file cannot be written.
PackageOutcomes(fs) ==
  IF fs = Paths THEN {"write failed"} ELSE {"ok", "write failed"}

\* What the relay can do once a connection is attempted.
SmtpOutcomes == {"ok", "auth failed"}

\* request.get_json(): no JSON body (None), a JSON value that is no object, or
\* an object whose "url" key is absent (None), empty or a URL.
Bodies ==
  {[shape |-> "none", url |-> NoneVal], [shape |-> "list", url |-> NoneVal]}
    \cup {[shape |-> "object", url |-> u] : u \in Urls \cup {NoneVal, ""}}

VARIABLES
  threaded,       \* app.run serves requests concurrently (Flask's threaded option)
  config,         \* which of SMTP_USERNAME, SMTP_PASSWORD, KINDLE_EMAIL are set
  now,            \* the wall clock datetime.now() reads
  article_queue,  \* the process-wide pending list
  files,          \* temporary packaged files that exist on disk
  pc,             \* per thread: where its handler stands
  kind,           \* per thread: the handler it runs
  url,            \* per thread: the url local of queue_article
  article_data,   \* per thread: the article_data local of queue_article
  snapshot,       \* per thread: the copy article_queue[:] send_queue iterates
  idx,            \* per thread: position of send_queue's loop in the copy
  results,        \* per thread: the results local of send_queue
  last,           \* per thread: what the last extract/package/dispatch did
  resp            \* per thread: the response of the handler

vars == <<threaded, config, now, article_queue, files, pc, kind, url, article_data,
          snapshot, idx, results, last, resp>>

\* ---------------------------------------------------------------- responses
Json(status, body) == [kind |-> "json", status |-> status, body |-> body]

\* An exception that leaves the handler: Flask answers with its own 500 page.
Fault(exc) == [kind |-> "fault", status |-> 500, body |-> [exception |-> exc]]

NoResp == [kind |-> "none", status |-> 0, body |-> [none |-> TRUE]]

UrlRequired == Json(400, [success |-> FALSE, error |-> "URL is required"])

\* all([SMTP_USERNAME, SMTP_PASSWORD, KINDLE_EMAIL])
Configured == config.user /\ config.pass /\ config.kindle

\* What one pass through extract -> package -> dispatch did for one URL.
\* ex: what the library did on extraction ("none": not asked); record: what
\* extract_article returned; packaged: "none", "ok" or "raised"; dispatched:
\* send_to_kindle was called; conns, sent: its connections and whether the
\* email went out; result: what it returned; file_left: the packaged file
\* existed when it returned.
NoLast ==
  [url |-> NoneVal, ex |-> "none", record |-> NoneVal, packaged |-> "none",
   dispatched |-> FALSE, conns |-> 0, sent |-> FALSE, result |-> NoneVal,
   file_left |-> FALSE]

\* --------------------------------------------------------- pure operations

\* extract_article without its except branch's failure record: every
\* extraction is reported as a success.
extract_article_always_ok(u, ex) ==
  [success |-> TRUE, url |-> u,
   title |-> IF PageTitle(u) = "" THEN "Untitled Article" ELSE PageTitle(u)]

\* extract_article(url); ex is what the library did.
extract_article(u, ex) ==
  IF ex = "ok"
    THEN [success |-> TRUE, url |-> u,
          title |-> IF PageTitle(u) = "" THEN "Untitled Article" ELSE PageTitle(u)]
    ELSE [success |-> FALSE, error |-> ex, url |-> u]

\* tempfile.mkdtemp(): a path that does not exist yet.
FreshPath(fs) == CHOOSE p \in Paths \ fs : \A q \in Paths \ fs : p <= q

\* create_epub(article_data); pk is what writing the file did.  Raises, or
\* returns the path of the new file.
create_epub(fs, pk) ==
  IF pk = "ok"
    THEN [raised |-> FALSE, path |-> FreshPath(fs), files |-> fs \cup {FreshPath(fs)},
          error |-> NoneVal]
    ELSE [raised |-> TRUE, path |-> 0, files |-> fs, error |-> pk]

\* send_to_kindle without the configuration test of line 138: it connects
\* whatever is configured.
send_to_kindle_unchecked(epub_path, title, fs, smtp) ==
  IF epub_path \notin fs
    THEN [result |-> [success |-> FALSE, error |-> "No such file"],
          files |-> fs, conns |-> 0, sent |-> FALSE]
  ELSE IF smtp = "ok" /\ Configured
    THEN [result |-> [success |-> TRUE, message |-> <<"Sent", title>>],
          files |-> fs \ {epub_path}, conns |-> 1, sent |-> TRUE]
    ELSE [result |-> [success |-> FALSE, error |-> smtp],
          files |-> fs \ {epub_path}, conns |-> 1, sent |-> FALSE]

\* send_to_kindle with the relay's failure swallowed: it returns the success
\* record although send_message did not run.
send_to_kindle_swallow(epub_path, title, fs, smtp) ==
  IF ~Configured
    THEN [result |-> [success |-> FALSE, error |-> "Email configuration incomplete"],
          files |-> fs, conns |-> 0, sent |-> FALSE]
    ELSE [result |-> [success |-> TRUE, message |-> <<"Sent", title>>],
          files |-> fs \ {epub_path}, conns |-> 1, sent |-> (smtp = "ok")]

\* send_to_kindle(epub_path, title); smtp is what the relay did.  conns counts
\* the smtplib.SMTP connections opened, sent tells whether send_message ran.
send_to_kindle(epub_path, title, fs, smtp) ==
  IF ~Configured
    THEN [result |-> [success |-> FALSE, error |-> "Email configuration incomplete"],
          files |-> fs, conns |-> 0, sent |-> FALSE]
  ELSE IF epub_path \notin fs
    THEN [result |-> [success |-> FALSE, error |-> "No such file"],
          files |-> fs, conns |-> 0, sent |-> FALSE]
  ELSE IF smtp = "ok"
    THEN [result |-> [success |-> TRUE, message |-> <<"Sent", title>>],
          files |-> fs \ {epub_path}, conns |-> 1, sent |-> TRUE]
    ELSE [result |-> [success |-> FALSE, error |-> smtp],
          files |-> fs \ {epub_path}, conns |-> 1, sent |-> FALSE]

Init ==
  /\ threaded \in BOOLEAN
  /\ config \in [user : BOOLEAN, pass : BOOLEAN, kindle : BOOLEAN]
  /\ now = 0
  /\ article_queue = <<>>
  /\ files = {}
  /\ pc = [t \in Threads |-> "idle"]
  /\ kind = [t \in Threads |-> "none"]
  /\ url = [t \in Threads |-> NoneVal]
  /\ article_data = [t \in Threads |-> NoneVal]
  /\ snapshot = [t \in Threads |-> <<>>]
  /\ idx = [t \in Threads |-> 0]
  /\ results = [t \in Threads |-> <<>>]
  /\ last = [t \in Threads |-> NoLast]
  /\ resp = [t \in Threads |-> NoResp]

\* ---------------------------------------------------- one URL's pipeline

\* The record of a pipeline that stopped after extraction.
LastExtract(u, ex, ad) == [NoLast EXCEPT !.url = u, !.ex = ex, !.record = ad]

\* The record of a pipeline whose packaging raised.
LastRaised(u, ex, ad) == [LastExtract(u, ex, ad) EXCEPT !.packaged = "raised"]

\* The record of a pipeline that reached send_to_kindle; ep and s are what
\* create_epub and send_to_kindle returned.
LastDispatch(u, ex, ad, ep, s) ==
  [LastExtract(u, ex, ad) EXCEPT
     !.packaged = "ok", !.dispatched = TRUE, !.conns = s.conns,
     !.sent = s.sent, !.result = s.result, !.file_left = (ep.path \in s.files)]

\* send_article, from the parsed body to the response.
send_article(data, ex, pk, smtp, fs) ==
  IF data.shape # "object"
    THEN [resp |-> Fault("AttributeError"), files |-> fs, last |-> NoLast]
  ELSE IF data.url \in {NoneVal, ""}
    THEN [resp |-> UrlRequired, files |-> fs, last |-> NoLast]
  ELSE
    LET ad == extract_article(data.url, ex) IN
    IF ~ad.success
      THEN [resp |-> Json(400, ad), files |-> fs,
            last |-> LastExtract(data.url, ex, ad)]
    ELSE
      LET ep == create_epub(fs, pk) IN
      IF ep.raised
        THEN [resp |-> Json(500, [success |-> FALSE,
                                  error |-> <<"Failed to create EPUB", ep.error>>]),
              files |-> ep.files, last |-> LastRaised(data.url, ex, ad)]
      ELSE
        LET s == send_to_kindle(ep.path, ad.title, ep.files, smtp) IN
        [resp |-> IF s.result.success
                    THEN Json(200, [success |-> TRUE, message |-> s.result.message,
                                    title |-> ad.title])
                    ELSE Json(500, s.result),
         files |-> s.files, last |-> LastDispatch(data.url, ex, ad, ep, s)]

\* One iteration of send_queue's loop up to the removal: what it appends to
\* results, and whether create_epub raised out of the handler.
flush_item(item, ex, pk, smtp, fs) ==
  LET ad == extract_article(item.url, ex) IN
  IF ~ad.success
    THEN [raised |-> FALSE, success |-> FALSE,
          entry |-> [url |-> item.url, success |-> FALSE, error |-> ad.error],
          files |-> fs, last |-> LastExtract(item.url, ex, ad)]
  ELSE
    LET ep == create_epub(fs, pk) IN
    IF ep.raised
      THEN [raised |-> TRUE, success |-> FALSE, entry |-> NoneVal,
            files |-> ep.files, last |-> LastRaised(item.url, ex, ad)]
    ELSE
      LET s == send_to_kindle(ep.path, ad.title, ep.files, smtp) IN
      [raised |-> FALSE, success |-> s.result.success,
       entry |-> [title |-> ad.title, success |-> s.result.success,
                  error |-> IF s.result.success THEN NoneVal ELSE s.result.error],
       files |-> s.files, last |-> LastDispatch(item.url, ex, ad, ep, s)]

\* ------------------------------------------------------- the pending list

\* article_queue.insert(0, item) in place of the append
list_insert_front(q, item) == <<item>> \o q

\* article_queue.append(item)
list_append(q, item) == Append(q, item)

\* x in q
Contains(q, x) == \E i \in 1..Len(q) : q[i] = x

\* q.index(x): the first position holding a value equal to x
FirstIndex(q, x) == CHOOSE i \in 1..Len(q) : q[i] = x /\ \A j \in 1..(i - 1) : q[j] # x

\* q without position i
DropAt(q, i) == SubSeq(q, 1, i - 1) \o SubSeq(q, i + 1, Len(q))

\* article_queue.pop(0) in place of remove(x): the head goes, whatever it is.
list_pop_head(q, x) == Tail(q)

\* article_queue.remove(x) when x is in the list: the first equal value goes.
list_remove(q, x) == DropAt(q, FirstIndex(q, x))

\* ------------------------------------------------------------- the handlers

\* A handler's locals when it is not running.
Reset(t) ==
  /\ url' = [url EXCEPT ![t] = NoneVal]
  /\ article_data' = [article_data EXCEPT ![t] = NoneVal]
  /\ snapshot' = [snapshot EXCEPT ![t] = <<>>]
  /\ idx' = [idx EXCEPT ![t] = 0]
  /\ results' = [results EXCEPT ![t] = <<>>]

\* No handler has just returned.  A response that was just produced goes out
\* (Finish) before anything else happens, so that "done" marks the moment the
\* handler returned and the state is the one it returned in.
Quiet == \A o \in Threads : pc[o] # "done"

\* Every other thread is idle.
Alone(t) == \A o \in Threads \ {t} : pc[o] = "idle"

\* A request arrives and thread t takes it.  A server that is not threaded
\* takes a request only when no other is in flight.
Begin(t, k) ==
  /\ pc[t] = "idle"
  /\ Quiet
  /\ threaded \/ Alone(t)
  /\ kind' = [kind EXCEPT ![t] = k]

Respond(t, r) ==
  /\ pc' = [pc EXCEPT ![t] = "done"]
  /\ resp' = [resp EXCEPT ![t] = r]

\* health_check
HealthCheck(t) ==
  /\ Begin(t, "health")
  /\ Respond(t, Json(200, [status |-> "ok", kindle_configured |-> config.kindle,
                           smtp_configured |-> (config.user /\ config.pass)]))
  /\ UNCHANGED <<threaded, config, now, article_queue, files, url, article_data,
                 snapshot, idx, results, last>>

\* send_article: POST /send
SendArticle(t) ==
  /\ Begin(t, "send")
  /\ \E data \in Bodies, pk \in PackageOutcomes(files), smtp \in SmtpOutcomes :
       \E ex \in (IF data.url \in Urls THEN ExtractOutcomes(data.url) ELSE {"none"}) :
         LET out == send_article(data, ex, pk, smtp, files) IN
         /\ Respond(t, out.resp)
         /\ files' = out.files
         /\ last' = [last EXCEPT ![t] = out.last]
  /\ UNCHANGED <<threaded, config, now, article_queue, url, article_data, snapshot, idx, results>>

\* preview_article: POST /preview
PreviewArticle(t) ==
  /\ Begin(t, "preview")
  /\ \E data \in Bodies :
       \E ex \in (IF data.url \in Urls THEN ExtractOutcomes(data.url) ELSE {"none"}) :
         IF data.shape # "object"
           THEN Respond(t, Fault("AttributeError")) /\ UNCHANGED last
         ELSE IF data.url \in {NoneVal, ""}
           THEN Respond(t, UrlRequired) /\ UNCHANGED last
         ELSE /\ Respond(t, Json(200, extract_article(data.url, ex)))
              /\ last' = [last EXCEPT ![t] =
                            LastExtract(data.url, ex, extract_article(data.url, ex))]
  /\ UNCHANGED <<threaded, config, now, article_queue, files, url, article_data,
                 snapshot, idx, results>>

\* get_queue: GET /queue
GetQueue(t) ==
  /\ Begin(t, "list")
  /\ Respond(t, Json(200, [success |-> TRUE, queue |-> article_queue,
                           count |-> Len(article_queue)]))
  /\ UNCHANGED <<threaded, config, now, article_queue, files, url, article_data,
                 snapshot, idx, results, last>>

\* clear_queue: DELETE /queue/clear
ClearQueue(t) ==
  /\ Begin(t, "clear")
  /\ article_queue' = <<>>
  /\ Respond(t, Json(200, [success |-> TRUE, message |-> "Queue cleared"]))
  /\ UNCHANGED <<threaded, config, now, files, url, article_data, snapshot, idx, results, last>>

\* queue_article, lines 227-242: the body, the url, the extraction and, when
\* it succeeded, the append (nothing before the append touches the list)
QueueArticle(t) ==
  /\ Begin(t, "queue")
  /\ \E data \in Bodies :
       \E ex \in (IF data.url \in Urls THEN ExtractOutcomes(data.url) ELSE {"none"}) :
         IF data.shape # "object"
           THEN /\ Respond(t, Fault("AttributeError"))
                /\ UNCHANGED <<url, article_data, last, article_queue>>
         ELSE IF data.url \in {NoneVal, ""}
           THEN /\ Respond(t, UrlRequired)
                /\ UNCHANGED <<url, article_data, last, article_queue>>
         ELSE
           LET ad == extract_article(data.url, ex) IN
           /\ url' = [url EXCEPT ![t] = data.url]
           /\ last' = [last EXCEPT ![t] = LastExtract(data.url, ex, ad)]
           /\ article_data' = [article_data EXCEPT ![t] = ad]
           /\ IF ~ad.success
                THEN Respond(t, Json(400, ad)) /\ UNCHANGED article_queue
                ELSE /\ Len(article_queue) < MaxQueue
                     /\ article_queue' = list_append(article_queue,
                          [url |-> data.url, title |-> ad.title, added_at |-> now])
                     /\ pc' = [pc EXCEPT ![t] = "q_respond"]
                     /\ UNCHANGED resp
  /\ UNCHANGED <<threaded, config, now, files, snapshot, idx, results>>

\* queue_article, lines 244-248: the response reads len(article_queue)
QueueRespond(t) ==
  /\ pc[t] = "q_respond"
  /\ Quiet
  /\ Respond(t, Json(200, [success |-> TRUE,
                           message |-> <<"Added", article_data[t].title>>,
                           queue_length |-> Len(article_queue)]))
  /\ UNCHANGED <<threaded, config, now, article_queue, files, kind, url, article_data,
                 snapshot, idx, results, last>>

\* send_queue, lines 264-267: the emptiness test
SendQueue(t) ==
  /\ Begin(t, "flush")
  /\ IF article_queue = <<>>
       THEN Respond(t, Json(400, [success |-> FALSE, error |-> "Queue is empty"]))
       ELSE pc' = [pc EXCEPT ![t] = "f_copy"] /\ UNCHANGED resp
  /\ UNCHANGED <<threaded, config, now, article_queue, files, url, article_data,
                 snapshot, idx, results, last>>

\* Where send_queue's loop goes after position i of a copy of length n.
LoopPc(i, n) == IF i <= n THEN "f_item" ELSE "f_respond"

\* send_queue, line 268: article_queue[:]
FlushCopy(t) ==
  /\ pc[t] = "f_copy"
  /\ Quiet
  /\ snapshot' = [snapshot EXCEPT ![t] = article_queue]
  /\ idx' = [idx EXCEPT ![t] = 1]
  /\ pc' = [pc EXCEPT ![t] = LoopPc(1, Len(article_queue))]
  /\ UNCHANGED <<threaded, config, now, article_queue, files, kind, url, article_data,
                 results, last, resp>>

\* send_queue, lines 269-285: one item's extraction, packaging and dispatch
FlushItem(t) ==
  /\ pc[t] = "f_item"
  /\ Quiet
  /\ \E ex \in ExtractOutcomes(snapshot[t][idx[t]].url),
        pk \in PackageOutcomes(files), smtp \in SmtpOutcomes :
       LET out == flush_item(snapshot[t][idx[t]], ex, pk, smtp, files) IN
       /\ files' = out.files
       /\ last' = [last EXCEPT ![t] = out.last]
       /\ IF out.raised
            THEN /\ Respond(t, Fault("create_epub"))
                 /\ UNCHANGED <<results, idx>>
            ELSE /\ results' = [results EXCEPT ![t] = Append(@, out.entry)]
                 /\ UNCHANGED resp
                 /\ IF out.success
                      THEN pc' = [pc EXCEPT ![t] = "f_remove"] /\ UNCHANGED idx
                      ELSE /\ idx' = [idx EXCEPT ![t] = @ + 1]
                           /\ pc' = [pc EXCEPT ![t] = LoopPc(idx[t] + 1, Len(snapshot[t]))]
  /\ UNCHANGED <<threaded, config, now, article_queue, kind, url, article_data, snapshot>>

\* send_queue, line 279: article_queue.remove(item)
FlushRemove(t) ==
  /\ pc[t] = "f_remove"
  /\ Quiet
  /\ IF Contains(article_queue, snapshot[t][idx[t]])
       THEN /\ article_queue' = list_remove(article_queue, snapshot[t][idx[t]])
            /\ idx' = [idx EXCEPT ![t] = @ + 1]
            /\ pc' = [pc EXCEPT ![t] = LoopPc(idx[t] + 1, Len(snapshot[t]))]
            /\ UNCHANGED resp
       ELSE /\ Respond(t, Fault("ValueError"))
            /\ UNCHANGED <<article_queue, idx>>
  /\ UNCHANGED <<threaded, config, now, files, kind, url, article_data, snapshot,
                 results, last>>

\* send_queue, lines 287-291: the response reads len(article_queue)
FlushRespond(t) ==
  /\ pc[t] = "f_respond"
  /\ Quiet
  /\ Respond(t, Json(200, [success |-> TRUE, results |-> results[t],
                           remaining_in_queue |-> Len(article_queue)]))
  /\ UNCHANGED <<threaded, config, now, article_queue, files, kind, url, article_data,
                 snapshot, idx, results, last>>

\* The response has gone out: the thread is free for the next request.
Finish(t) ==
  /\ pc[t] = "done"
  /\ pc' = [pc EXCEPT ![t] = "idle"]
  /\ kind' = [kind EXCEPT ![t] = "none"]
  /\ resp' = [resp EXCEPT ![t] = NoResp]
  /\ last' = [last EXCEPT ![t] = NoLast]
  /\ Reset(t)
  /\ UNCHANGED <<threaded, config, now, article_queue, files>>

\* The wall clock moves on.
Tick ==
  /\ now < MaxClock
  /\ Quiet
  /\ now' = now + 1
  /\ UNCHANGED <<threaded, config, article_queue, files, pc, kind, url, article_data,
                 snapshot, idx, results, last, resp>>

Step(t) ==
  \/ HealthCheck(t)
  \/ SendArticle(t)
  \/ PreviewArticle(t)
  \/ GetQueue(t)
  \/ ClearQueue(t)
  \/ QueueArticle(t)
  \/ QueueRespond(t)
  \/ SendQueue(t)
  \/ FlushCopy(t)
  \/ FlushItem(t)
  \/ FlushRemove(t)
  \/ FlushRespond(t)
  \/ Finish(t)

Next == Tick \/ \E t \in Threads : Step(t)

\* The threaded server: handlers of concurrent requests interleave.
InitThreaded == Init /\ threaded

Spec == InitThreaded /\ [][Next]_vars

\* The server with one request in flight at a time.
InitSerial == Init /\ ~threaded

SpecSerial == InitSerial /\ [][Next]_vars

\* The threaded server under enqueue and flush requests only.
QueueStep(t) ==
  \/ QueueArticle(t)
  \/ QueueRespond(t)
  \/ SendQueue(t)
  \/ FlushCopy(t)
  \/ FlushItem(t)
  \/ FlushRemove(t)
  \/ FlushRespond(t)
  \/ Finish(t)

NextQueue == Tick \/ \E t \in Threads : QueueStep(t)

SpecQueue == InitThreaded /\ [][NextQueue]_vars

\* ------------------------------------------------------------------ claims

\* Thread t's handler of kind k has just returned.
Done(t, k) == pc[t] = "done" /\ kind[t] = k

\* The library failed on the URL of thread t's last extraction.
ExtractFailed(t) == last[t].ex \notin {"ok", "none"}

\* C1: after any call of send_to_kindle, whatever its outcome (also the
\* configuration-error outcome), the packaged file passed to it no longer
\* exists when the call returns.
C1_FileGoneAfterDispatch ==
  \A t \in Threads : last[t].dispatched => ~last[t].file_left

\* The items of thread t's copy whose results entry reports no success, in
\* the copy's order.
RECURSIVE Unsuccessful(_, _, _)
Unsuccessful(snap, res, k) ==
  IF k > Len(snap) THEN <<>>
  ELSE (IF res[k].success THEN <<>> ELSE <<snap[k]>>) \o Unsuccessful(snap, res, k + 1)

\* A flush that found the list non-empty has returned in thread t.
Flushed(t) == Done(t, "flush") /\ snapshot[t] # <<>>

\* C2: a flush that runs alone on N pending items of which K are fully
\* successful leaves exactly the N-K others in the list, in their original
\* order, and reports remaining_in_queue = N-K.
C2_FlushLeavesUnsuccessful ==
  \A t \in Threads :
    Flushed(t) =>
      /\ resp[t].kind = "json"
      /\ Len(results[t]) = Len(snapshot[t])
      /\ article_queue = Unsuccessful(snapshot[t], results[t], 1)
      /\ resp[t].body.remaining_in_queue = Len(Unsuccessful(snapshot[t], results[t], 1))

\* The results entry e reports on the item it of the copy.
EntryOf(e, it) ==
  IF "url" \in DOMAIN e THEN e.url = it.url ELSE e.title = it.title

\* C3: in a flush one item's failure at any stage does not abort the rest:
\* every item of the copy gets exactly one results entry, in the copy's order.
C3_FlushAttemptsEveryItem ==
  \A t \in Threads :
    Flushed(t) =>
      /\ Len(results[t]) = Len(snapshot[t])
      /\ \A k \in 1..Len(snapshot[t]) : EntryOf(results[t][k], snapshot[t][k])

\* C4: every request to every handler ends in a structured JSON response; no
\* failure leaves the handler as an unhandled fault.
C4_EveryRequestGetsJson ==
  \A t \in Threads : pc[t] = "done" => resp[t].kind = "json"

\* C9: a flush tolerates the concurrent removal of pending items: whatever
\* other requests remove while it runs, it ends in a structured response.
\* (The fault of a raising create_epub is C3's and C4's and is set aside.)
C9_FlushToleratesConcurrentRemoval ==
  \A t \in Threads :
    (Done(t, "flush") /\ last[t].packaged # "raised") => resp[t].kind = "json"

\* The item queue_article appends for thread t's request.
NewItem(t) == [url |-> url[t], title |-> article_data[t].title, added_at |-> now]

\* Thread t's enqueue takes the step that appends.
Enqueues(t) == pc[t] = "idle" /\ pc'[t] = "q_respond"

C6_SendReportsPipelineOutcome ==
  \A t \in Threads :
    (Done(t, "send") /\ resp[t].kind = "json") =>
      LET r == resp[t]  l == last[t] IN
      /\ r.body.success <=> (l.ex = "ok" /\ l.packaged = "ok" /\ l.sent)
      /\ l.packaged # "none" => l.ex = "ok"
      /\ l.dispatched => l.packaged = "ok"
      /\ r.body.success =>
           /\ r.status = 200
           /\ {"message", "title"} \subseteq DOMAIN r.body
      /\ l.ex = "none" => (r.status = 400 /\ r.body.error = "URL is required")
      /\ ExtractFailed(t) => (r.status = 400 /\ ~r.body.success)
      /\ l.packaged = "raised" => (r.status = 500 /\ ~r.body.success)
      /\ (l.dispatched /\ ~l.sent) => (r.status = 500 /\ ~r.body.success)

\* C6's case: a /send whose three stages all succeeded has returned.
C6_Witness ==
  \E t \in Threads : Done(t, "send") /\ last[t].sent /\ resp[t].status = 200

\* C7: for a URL whose extraction fails, extract_article returns a record
\* with success = false and a non-empty error and does not raise; the handler
\* that called it creates no packaged file and attempts no dispatch for that
\* URL, and /queue leaves the pending list as it was.
C7_FailedExtractionStopsPipeline ==
  /\ [](\A t \in Threads :
          ExtractFailed(t) =>
            /\ last[t].record.success = FALSE
            /\ last[t].record.error = last[t].ex
            /\ last[t].record.error # ""
            /\ last[t].packaged = "none"
            /\ ~last[t].dispatched
            /\ last[t].conns = 0
            /\ pc[t] = "done" => resp[t].kind = "json")
  /\ [][\A t \in Threads :
          (last'[t] # last[t] /\ ExtractFailed(t)') =>
            /\ files' = files
            /\ kind'[t] = "queue" => article_queue' = article_queue]_vars

\* C7's case: an enqueue whose extraction failed has returned, the list
\* holding an earlier item.
C7_Witness ==
  \E t \in Threads :
    /\ Done(t, "queue") /\ ExtractFailed(t)
    /\ resp[t].status = 400
    /\ article_queue # <<>>

\* C8: with the destination, the relay username or the relay password not
\* configured, send_to_kindle fails at once with a configuration error and
\* opens no connection and sends nothing; with all three configured it opens
\* exactly one connection per call (no retry).
C8_ConfigCheckedBeforeOneAttempt ==
  \A t \in Threads :
    last[t].dispatched =>
      IF config.user /\ config.pass /\ config.kindle
        THEN last[t].conns = 1
        ELSE /\ last[t].conns = 0
             /\ ~last[t].sent
             /\ last[t].result.success = FALSE
             /\ last[t].result.error = "Email configuration incomplete"

\* C8's case: send_to_kindle was called with the destination not configured.
C8_Witness ==
  \E t \in Threads :
    last[t].dispatched /\ ~config.kindle /\ config.user /\ config.pass

\* Thread t's flush removes from the list one item equal to the one it has
\* just delivered, the others keeping their places.
RemovesDelivered(t) ==
  /\ pc[t] = "f_remove"
  /\ last[t].sent
  /\ last[t].url = snapshot[t][idx[t]].url
  /\ \E k \in 1..Len(article_queue) :
       /\ article_queue[k] = snapshot[t][idx[t]]
       /\ article_queue' = DropAt(article_queue, k)

\* C10: under any interleaving of enqueue and flush requests no appended item
\* is lost and the order of insertion is kept: the list changes only by an
\* enqueue putting its item last or by a flush taking out one item equal to
\* the one it has just delivered, and an enqueue reports success only after
\* its append.
C10_NoItemLostOrderKept ==
  /\ [][article_queue' # article_queue =>
          \E t \in Threads :
            \/ Enqueues(t) /\ article_queue' = Append(article_queue, NewItem(t)')
            \/ RemovesDelivered(t)]_vars
  /\ [][\A t \in Threads :
          (pc'[t] = "done" /\ kind'[t] = "queue" /\ resp'[t].status = 200) =>
            pc[t] = "q_respond"]_vars

\* C10's case: while thread 1's flush, having delivered and removed the one
\* item of its copy, is still running, thread 2's enqueue has appended.
C10_Witness ==
  /\ kind[1] = "flush" /\ pc[1] = "f_respond"
  /\ Len(snapshot[1]) = 1 /\ last[1].sent
  /\ kind[2] = "queue" /\ pc[2] = "q_respond"
  /\ Len(article_queue) = 1
====
